---- MODULE Spec2Model ----
(***************************************************************************)
(* Baby sleep tracker: the in-memory store (server/storage.ts), the REST   *)
(* routes over it (server/routes.ts) and the sleep prediction policy       *)
(* (server/lib/openai.ts).                                                 *)
(*                                                                         *)
(* Time.  A Date is its epoch value counted in ticks; TicksPerMinute ticks *)
(* make a minute, so every instant the code compares against (09:00,       *)
(* 09:30, 13:00, 16:00, 18:00, 19:30, +30 min, +2 h) is a whole number of  *)
(* ticks and instants strictly between two minutes exist.  Local time is   *)
(* taken to be UTC without daylight saving, so a day is 24 hours.          *)
(*                                                                         *)
(* Confidence is counted in tenths: 7 is 0.7 and 5 is 0.5.                 *)
(***************************************************************************)
EXTENDS Integers, Sequences, FiniteSets

\* ------------------------------------------------------------------ bounds

TicksPerMinute == 2

\* ------------------------------------------------------------------- dates

Minute == TicksPerMinute
Hour == 60 * Minute
Day == 24 * Hour

\* Date.prototype.getHours
getHours(t) == (t % Day) \div Hour

\* Date.prototype.setHours(h, m, 0, 0) on a copy of t
setHours(t, h, m) == (t - (t % Day)) + h * Hour + m * Minute

\* new Date(NaN): what new Date(s) gives for a string that is no date
InvalidDate == 0 - 1

\* Date.prototype.toISOString: the text of t, as <<day, hour, minute, tick>>
toISOString(t) == << t \div Day, (t % Day) \div Hour, (t % Hour) \div Minute, t % Minute >>

\* A string that is not a date, and the empty string
NotADate == << 0 >>
EmptyString == << >>

\* new Date(s) for a string s
DateParse(s) ==
    IF Len(s) = 4 /\ s[2] < 24 /\ s[3] < 60 /\ s[4] < Minute
    THEN s[1] * Day + s[2] * Hour + s[3] * Minute + s[4]
    ELSE InvalidDate

\* -------------------------------------------------------- prediction policy

DefaultOffsetHours == 2
DefaultDuration == 90
DefaultConfidence == 5
RuleConfidence == 7
RetargetMinutes == 30

\* The outcomes of openai.chat.completions.create and of reading its result:
\*   "throw"        the request rejects (network error, timeout, HTTP error)
\*   "nochoices"    it resolves with no choices[0].message (a TypeError)
\*   "unparseable"  the content is not JSON (JSON.parse throws)
\*   "jsonnull"     the content is the JSON text null (a TypeError on .nextSleepTime)
\*   "empty"        the content is empty or null, read as "{}"
\*   "object"       the content is a JSON object, data holds its fields
ThrowingKinds == { "throw", "nochoices", "unparseable", "jsonnull" }
OutcomeKinds == ThrowingKinds \cup { "empty", "object" }

Fields == { "nextSleepTime", "predictedDuration", "confidence" }

Restrict(f, D) == [ x \in D |-> f[x] ]

EmptyObject == Restrict([ nextSleepTime |-> EmptyString ], {})

\* JSON.parse(response.choices[0].message.content || "{}")
predictionData(outcome) ==
    IF outcome.kind = "object" THEN outcome.data ELSE EmptyObject

\* childAge bands of the prompt
ageContext(childAge) ==
    IF childAge < 3 THEN "Newborns"
    ELSE IF childAge < 6 THEN "Babies 3-6 months"
    ELSE IF childAge < 12 THEN "Babies 6-12 months"
    ELSE IF childAge < 24 THEN "Toddlers 1-2 years"
    ELSE "Children 2+ years"

\* null, where a Date is expected
Null == 0 - 2

\* sleepRecords.filter(record => record.endTime !== null)
completedSleepRecords(records) ==
    LET done(record) == record.endTime # Null
    IN  SelectSeq(records, done)

\* quality: string | null
QNull == "<null>"

\* Math.round((end - start) / (1000 * 60)), halves rounded up
RoundMinutes(d) == (2 * d + Minute) \div (2 * Minute)

formattedRecords(records) ==
    LET c == completedSleepRecords(records)
    IN  [ i \in 1..Len(c) |->
            [ startTime |-> toISOString(c[i].startTime),
              endTime   |-> toISOString(c[i].endTime),
              quality   |-> IF c[i].quality = QNull \/ c[i].quality = ""
                            THEN "unknown" ELSE c[i].quality,
              duration  |-> RoundMinutes(c[i].endTime - c[i].startTime) ] ]

\* The request sent to the service
systemPrompt(childAge, records, at) ==
    [ childAge |-> childAge,
      ageContext |-> ageContext(childAge),
      history |-> formattedRecords(records),
      currentTime |-> toISOString(at) ]

\* The return of the inner try: each field of the response, or its default
PrimaryPrediction(data, now) ==
    [ nextSleepTime |->
        IF "nextSleepTime" \in DOMAIN data /\ data.nextSleepTime # EmptyString
        THEN data.nextSleepTime
        ELSE toISOString(now + DefaultOffsetHours * Hour),
      predictedDuration |->
        IF "predictedDuration" \in DOMAIN data /\ data.predictedDuration # 0
        THEN data.predictedDuration
        ELSE DefaultDuration,
      confidence |->
        IF "confidence" \in DOMAIN data /\ data.confidence # 0
        THEN data.confidence
        ELSE DefaultConfidence ]

\* The outer catch and the unreachable tail: now + 2 h, 90, 0.5
defaultPrediction(now) ==
    [ nextSleepTime |-> toISOString(now + DefaultOffsetHours * Hour),
      predictedDuration |-> DefaultDuration,
      confidence |-> DefaultConfidence ]

\* currentHour < 9: 09:30, or 13:00 once 09:30 has passed
MorningNap_NoNap(now) == setHours(now, 13, 0)
MorningNap(now) ==
    LET predictedSleepTime == setHours(now, 9, 30)
    IN  IF predictedSleepTime < now THEN setHours(now, 13, 0) ELSE predictedSleepTime

\* currentHour < 13: 13:00
AfternoonNap_Late(now) == setHours(now, 13, 30)
AfternoonNap(now) == setHours(now, 13, 0)

\* currentHour < 18: 16:00, or 19:30 once 16:00 has passed
EveningNap_Eager(now) ==
    LET predictedSleepTime == setHours(now, 16, 0)
    IN  IF predictedSleepTime <= now THEN setHours(now, 19, 30) ELSE predictedSleepTime
EveningNap(now) ==
    LET predictedSleepTime == setHours(now, 16, 0)
    IN  IF predictedSleepTime < now THEN setHours(now, 19, 30) ELSE predictedSleepTime

\* otherwise: 19:30, or now + 30 min once 19:30 has passed
Bedtime_Eager(now) ==
    LET predictedSleepTime == setHours(now, 19, 30)
    IN  IF predictedSleepTime <= now THEN now + RetargetMinutes * Minute
        ELSE predictedSleepTime
Bedtime(now) ==
    LET predictedSleepTime == setHours(now, 19, 30)
    IN  IF predictedSleepTime < now THEN now + RetargetMinutes * Minute
        ELSE predictedSleepTime

\* if (predictedSleepTime < now) predictedSleepTime = now + 30 min
FinalClamp(predictedSleepTime, now) ==
    IF predictedSleepTime < now THEN now + RetargetMinutes * Minute
    ELSE predictedSleepTime

\* The inner catch: the time-of-day rules, read at the time of the failure
RuleBasedPrediction(now) ==
    LET currentHour == getHours(now)
        predictedSleepTime ==
            IF currentHour < 9 THEN MorningNap(now)
            ELSE IF currentHour < 13 THEN AfternoonNap(now)
            ELSE IF currentHour < 18 THEN EveningNap(now)
            ELSE Bedtime(now)
        predictedDuration ==
            IF currentHour < 9 THEN 90
            ELSE IF currentHour < 13 THEN 90
            ELSE IF currentHour < 18 THEN 60
            ELSE 600
    IN  [ nextSleepTime |-> toISOString(FinalClamp(predictedSleepTime, now)),
          predictedDuration |-> predictedDuration,
          confidence |-> RuleConfidence ]

\* catch (openaiError): what predictNextSleep does once the inner try has thrown
OnOpenaiError_Default(now) == defaultPrediction(now)
OnOpenaiError(now) == RuleBasedPrediction(now)

\* The inner try from the await on: it returns the primary prediction, or
\* throws into the inner catch, which returns the rule-based one
InnerTry(outcome, now) ==
    IF outcome.kind \in ThrowingKinds
    THEN OnOpenaiError(now)
    ELSE PrimaryPrediction(predictionData(outcome), now)

\* predictNextSleep from the await on: outcome is what the service did, now is
\* the time at which the function resumes.  Nothing computed before the await
\* (the age band, the formatted history) is read after it.  A record with an
\* error field stands for a thrown error; the outer catch turns one thrown by
\* the inner block into the defaults.
predictNextSleepReturn_NoCatch(outcome, now) ==
    IF outcome.kind \in ThrowingKinds
    THEN [ error |-> outcome.kind ]
    ELSE PrimaryPrediction(predictionData(outcome), now)
predictNextSleepReturn(outcome, now) ==
    LET returned == InnerTry(outcome, now)
    IN  IF "error" \in DOMAIN returned THEN defaultPrediction(now) ELSE returned

\* ------------------------------------------------------------------- state

VARIABLES
    \* MemStorage
    users, children, sleepRecords, sleepPredictions,
    userId, childId, sleepRecordId, sleepPredictionId,
    \* the server's clock; the prediction requests suspended at the service
    \* call, counted per child; the response last sent
    clock, pending, response,
    \* predictNextSleep run on its own: its position, its arguments, the
    \* service's outcome, the clock when it resumes, what it returns and the
    \* requests it has sent to the service
    pc, pAge, pHistory, pNow, pOutcome, pResult, pRequests

storeVars == << users, children, sleepRecords, sleepPredictions,
                userId, childId, sleepRecordId, sleepPredictionId >>
serverVars == << storeVars, clock, pending, response >>
policyVars == << pc, pAge, pHistory, pNow, pOutcome, pResult, pRequests >>
vars == << serverVars, policyVars >>

\* ----------------------------------------------------------------- the store

MaxChildren == 2
MaxRecords == 2
MaxPredictions == 2
MaxClockSteps == 2

\* A Map, in insertion order: ids are handed out in increasing order and set()
\* on a present key keeps its place, so the order of values() is that of the ids
EmptyMap == [ x \in {} |-> 0 ]
Put(map, key, value) ==
    [ k \in (DOMAIN map) \cup { key } |-> IF k = key THEN value ELSE map[k] ]
Delete(map, key) == Restrict(map, (DOMAIN map) \ { key })

\* { ...existing, ...data }: the fields of data replace those of existing
Merge(existing, data) ==
    [ f \in (DOMAIN existing) \cup (DOMAIN data) |->
        IF f \in DOMAIN data THEN data[f] ELSE existing[f] ]

\* Array.prototype.sort with (a, b) => key(b) - key(a): descending by key, and
\* stable, so equal keys stay in the order of their ids
RECURSIVE sortDescending(_, _)
sortDescending(ids, key) ==
    IF ids = {} THEN << >>
    ELSE LET first == CHOOSE i \in ids :
                        \A j \in ids : key[i] > key[j] \/ (key[i] = key[j] /\ i <= j)
         IN  << first >> \o sortDescending(ids \ { first }, key)

StoreInit ==
    /\ users = EmptyMap
    /\ children = EmptyMap
    /\ sleepRecords = EmptyMap
    /\ sleepPredictions = EmptyMap
    /\ userId = 1
    /\ childId = 1
    /\ sleepRecordId = 1
    /\ sleepPredictionId = 1

\* storage.getSleepRecordsByChildId, were the filtered records left in the
\* order of the map
getSleepRecordsByChildId_Unsorted(c) ==
    LET ids == { i \in DOMAIN sleepRecords : sleepRecords[i].childId = c }
        order == sortDescending(ids, [ i \in ids |-> 0 - i ])
    IN  [ k \in 1 .. Len(order) |-> sleepRecords[order[k]] ]

\* storage.getSleepRecordsByChildId
getSleepRecordsByChildId(c) ==
    LET ids == { i \in DOMAIN sleepRecords : sleepRecords[i].childId = c }
        order == sortDescending(ids, [ i \in ids |-> sleepRecords[i].startTime ])
    IN  [ k \in 1 .. Len(order) |-> sleepRecords[order[k]] ]

\* storage.getActiveSleepRecordByChildId: << >> is undefined
getActiveSleepRecordByChildId_Last(c) ==
    LET ids == { i \in DOMAIN sleepRecords :
                    sleepRecords[i].childId = c /\ sleepRecords[i].isActive = TRUE }
    IN  IF ids = {} THEN << >>
        ELSE << sleepRecords[CHOOSE i \in ids : \A j \in ids : i >= j] >>
getActiveSleepRecordByChildId(c) ==
    LET ids == { i \in DOMAIN sleepRecords :
                    sleepRecords[i].childId = c /\ sleepRecords[i].isActive = TRUE }
    IN  IF ids = {} THEN << >>
        ELSE << sleepRecords[CHOOSE i \in ids : \A j \in ids : i <= j] >>

\* storage.getLatestSleepPredictionByChildId: << >> is undefined
getLatestSleepPredictionByChildId_Ascending(c) ==
    LET ids == { i \in DOMAIN sleepPredictions : sleepPredictions[i].childId = c }
        predictions == sortDescending(ids, [ i \in ids |-> 0 - sleepPredictions[i].createdAt ])
    IN  IF Len(predictions) > 0 THEN << sleepPredictions[predictions[1]] >> ELSE << >>
getLatestSleepPredictionByChildId(c) ==
    LET ids == { i \in DOMAIN sleepPredictions : sleepPredictions[i].childId = c }
        predictions == sortDescending(ids, [ i \in ids |-> sleepPredictions[i].createdAt ])
    IN  IF Len(predictions) > 0 THEN << sleepPredictions[predictions[1]] >> ELSE << >>

\* storage.createSleepPrediction: the prediction, which carries the id taken
\* from the counter and its createdAt, is set under its id
createSleepPrediction_Update(sleepPrediction) ==
    LET latest == getLatestSleepPredictionByChildId(sleepPrediction.childId)
    IN  IF latest = << >>
        THEN Put(sleepPredictions, sleepPrediction.id, sleepPrediction)
        ELSE Put(sleepPredictions, latest[1].id,
                 [ sleepPrediction EXCEPT !.id = latest[1].id ])
createSleepPrediction(sleepPrediction) ==
    Put(sleepPredictions, sleepPrediction.id, sleepPrediction)

\* ---------------------------------------------------------------- schemas

\* The JSON value null where a text is expected
JsonNull == << 0 - 2 >>

ChildFields == { "name", "birthDate", "gender" }

\* z.coerce.date() on a text
ValidDateText(text) == DateParse(text) # InvalidDate

\* insertChildSchema.partial(): every field that is given is well-formed
PartialChildOk(body) ==
    ("birthDate" \in DOMAIN body) => ValidDateText(body.birthDate)

\* insertChildSchema: the three fields, well-formed
InsertChildOk(body) ==
    /\ ChildFields \subseteq DOMAIN body
    /\ PartialChildOk(body)

\* What parse returns: the known fields, the date coerced
ParsedChild(body) ==
    [ f \in (DOMAIN body) \cap ChildFields |->
        IF f = "birthDate" THEN DateParse(body[f]) ELSE body[f] ]

RecordFields == { "childId", "startTime", "endTime", "isActive", "quality" }
UpdateFields == { "endTime", "isActive", "quality" }

\* z.coerce.date().nullable() on a text or null
NullableDate(text) == IF text = JsonNull THEN Null ELSE DateParse(text)
NullableDateOk(text) == text = JsonNull \/ ValidDateText(text)

\* insertSleepRecordSchema: the object, then the refinement, which throws when
\* an endTime is given and startTime >= endTime
RefineEndAfterStart_AllowEqual(startTime, endTime) ==
    ~ (endTime # Null /\ startTime > endTime)
RefineEndAfterStart(startTime, endTime) ==
    ~ (endTime # Null /\ startTime >= endTime)

InsertSleepRecordObjectOk(body) ==
    /\ RecordFields \subseteq DOMAIN body
    /\ ValidDateText(body.startTime)
    /\ NullableDateOk(body.endTime)

InsertSleepRecordOk(body) ==
    /\ InsertSleepRecordObjectOk(body)
    /\ RefineEndAfterStart(DateParse(body.startTime), NullableDate(body.endTime))

\* handleValidationError: the message of a ZodError, or String(err) for the
\* Error the refinement throws
ZodMessage == "validation"
RefineMessage == "Error: End time must be after start time"

ParsedSleepRecord(body) ==
    [ childId |-> body.childId,
      startTime |-> DateParse(body.startTime),
      endTime |-> NullableDate(body.endTime),
      isActive |-> body.isActive,
      quality |-> body.quality ]

\* updateSleepRecordSchema.partial(): endTime, isActive and quality, each
\* optional; nothing relates endTime to the startTime of the stored record
UpdateSleepRecordOk(body) ==
    ("endTime" \in DOMAIN body) => NullableDateOk(body.endTime)

ParsedUpdate_Defaulted(body) ==
    [ f \in UpdateFields |->
        IF f \notin DOMAIN body
        THEN (IF f = "endTime" THEN Null ELSE IF f = "isActive" THEN TRUE ELSE QNull)
        ELSE IF f = "endTime" THEN NullableDate(body[f]) ELSE body[f] ]
ParsedUpdate(body) ==
    [ f \in (DOMAIN body) \cap UpdateFields |->
        IF f = "endTime" THEN NullableDate(body[f]) ELSE body[f] ]

\* ----------------------------------------------------------------- routes

\* res.status(status).json(...): an error carries a message, a success the
\* entities it returns, as a sequence (one entity, or the list of a list route)
Respond(route, status, message, body) ==
    response' = [ route |-> route, status |-> status, message |-> message,
                  body |-> body ]

NoResponse == [ route |-> "none", status |-> 0, message |-> "", body |-> << >> ]

\* GET /api/children
GetChildren ==
    /\ Respond("GET /api/children", 200, "",
               [ k \in 1 .. Cardinality(DOMAIN children) |->
                   children[CHOOSE i \in DOMAIN children :
                       Cardinality({ j \in DOMAIN children : j <= i }) = k] ])
    /\ UNCHANGED << storeVars, clock, pending, policyVars >>

\* GET /api/children/:id
GetChild(id) ==
    /\ IF id \in DOMAIN children
       THEN Respond("GET /api/children/:id", 200, "", << children[id] >>)
       ELSE Respond("GET /api/children/:id", 404, "Child not found", << >>)
    /\ UNCHANGED << storeVars, clock, pending, policyVars >>

\* POST /api/children, were createChild to take the smallest id not in use
PostChild_SmallestFree(body) ==
    /\ childId <= MaxChildren
    /\ IF InsertChildOk(body)
       THEN LET id == CHOOSE i \in 1 .. childId :
                        i \notin DOMAIN children
                        /\ \A j \in 1 .. (i - 1) : j \in DOMAIN children
                child == Merge(ParsedChild(body), [ id |-> id ])
            IN  /\ childId' = childId + 1
                /\ children' = Put(children, id, child)
                /\ Respond("POST /api/children", 201, "", << child >>)
       ELSE /\ Respond("POST /api/children", 400, ZodMessage, << >>)
            /\ UNCHANGED << children, childId >>
    /\ UNCHANGED << users, sleepRecords, sleepPredictions, userId,
                    sleepRecordId, sleepPredictionId, clock, pending, policyVars >>

\* POST /api/children
PostChild(body) ==
    /\ childId <= MaxChildren
    /\ IF InsertChildOk(body)
       THEN LET id == childId
                child == Merge(ParsedChild(body), [ id |-> id ])
            IN  /\ childId' = childId + 1
                /\ children' = Put(children, id, child)
                /\ Respond("POST /api/children", 201, "", << child >>)
       ELSE /\ Respond("POST /api/children", 400, ZodMessage, << >>)
            /\ UNCHANGED << children, childId >>
    /\ UNCHANGED << users, sleepRecords, sleepPredictions, userId,
                    sleepRecordId, sleepPredictionId, clock, pending, policyVars >>

\* PUT /api/children/:id, were updateChild to store the data under an id it
\* does not hold
PutChild_Upsert(id, body) ==
    /\ IF ~ PartialChildOk(body)
       THEN /\ Respond("PUT /api/children/:id", 400, ZodMessage, << >>)
            /\ UNCHANGED children
       ELSE LET existing == IF id \in DOMAIN children THEN children[id]
                            ELSE [ id |-> id ]
                updatedChild == Merge(existing, ParsedChild(body))
            IN  /\ children' = Put(children, id, updatedChild)
                /\ Respond("PUT /api/children/:id", 200, "", << updatedChild >>)
    /\ UNCHANGED << users, sleepRecords, sleepPredictions, userId, childId,
                    sleepRecordId, sleepPredictionId, clock, pending, policyVars >>

\* PUT /api/children/:id
PutChild(id, body) ==
    /\ IF ~ PartialChildOk(body)
       THEN /\ Respond("PUT /api/children/:id", 400, ZodMessage, << >>)
            /\ UNCHANGED children
       ELSE IF id \notin DOMAIN children
       THEN /\ Respond("PUT /api/children/:id", 404, "Child not found", << >>)
            /\ UNCHANGED children
       ELSE LET updatedChild == Merge(children[id], ParsedChild(body))
            IN  /\ children' = Put(children, id, updatedChild)
                /\ Respond("PUT /api/children/:id", 200, "", << updatedChild >>)
    /\ UNCHANGED << users, sleepRecords, sleepPredictions, userId, childId,
                    sleepRecordId, sleepPredictionId, clock, pending, policyVars >>

\* DELETE /api/children/:id, were deleteChild to delete the child's sleep
\* records with it
DeleteChild_Cascade(id) ==
    /\ IF id \in DOMAIN children
       THEN /\ children' = Delete(children, id)
            /\ sleepRecords' =
                 Restrict(sleepRecords,
                          { i \in DOMAIN sleepRecords : sleepRecords[i].childId # id })
            /\ Respond("DELETE /api/children/:id", 204, "", << >>)
       ELSE /\ Respond("DELETE /api/children/:id", 404, "Child not found", << >>)
            /\ UNCHANGED << children, sleepRecords >>
    /\ UNCHANGED << users, sleepPredictions, userId, childId,
                    sleepRecordId, sleepPredictionId, clock, pending, policyVars >>

\* DELETE /api/children/:id
DeleteChild(id) ==
    /\ IF id \in DOMAIN children
       THEN /\ children' = Delete(children, id)
            /\ Respond("DELETE /api/children/:id", 204, "", << >>)
       ELSE /\ Respond("DELETE /api/children/:id", 404, "Child not found", << >>)
            /\ UNCHANGED children
    /\ UNCHANGED << users, sleepRecords, sleepPredictions, userId, childId,
                    sleepRecordId, sleepPredictionId, clock, pending, policyVars >>

\* GET /api/children/:childId/sleep-records
GetSleepRecords(c) ==
    /\ Respond("GET /api/children/:childId/sleep-records", 200, "",
               getSleepRecordsByChildId(c))
    /\ UNCHANGED << storeVars, clock, pending, policyVars >>

\* GET /api/children/:childId/active-sleep
GetActiveSleep(c) ==
    /\ LET activeSleepRecord == getActiveSleepRecordByChildId(c)
       IN  IF activeSleepRecord = << >>
           THEN Respond("GET /api/children/:childId/active-sleep", 404,
                        "No active sleep record found", << >>)
           ELSE Respond("GET /api/children/:childId/active-sleep", 200, "",
                        activeSleepRecord)
    /\ UNCHANGED << storeVars, clock, pending, policyVars >>

\* POST /api/sleep-records
PostSleepRecord(body) ==
    /\ sleepRecordId <= MaxRecords
    /\ IF InsertSleepRecordOk(body)
       THEN LET id == sleepRecordId
                sleepRecord == Merge(ParsedSleepRecord(body), [ id |-> id ])
            IN  /\ sleepRecordId' = sleepRecordId + 1
                /\ sleepRecords' = Put(sleepRecords, id, sleepRecord)
                /\ Respond("POST /api/sleep-records", 201, "", << sleepRecord >>)
       ELSE /\ Respond("POST /api/sleep-records", 400,
                       IF InsertSleepRecordObjectOk(body) THEN RefineMessage
                       ELSE ZodMessage, << >>)
            /\ UNCHANGED << sleepRecords, sleepRecordId >>
    /\ UNCHANGED << users, children, sleepPredictions, userId, childId,
                    sleepPredictionId, clock, pending, policyVars >>

\* PATCH /api/sleep-records/:id
PatchSleepRecord(id, body) ==
    /\ IF ~ UpdateSleepRecordOk(body)
       THEN /\ Respond("PATCH /api/sleep-records/:id", 400, ZodMessage, << >>)
            /\ UNCHANGED sleepRecords
       ELSE IF id \notin DOMAIN sleepRecords
       THEN /\ Respond("PATCH /api/sleep-records/:id", 404, "Sleep record not found",
                    << >>)
            /\ UNCHANGED sleepRecords
       ELSE LET updatedRecord == Merge(sleepRecords[id], ParsedUpdate(body))
            IN  /\ sleepRecords' = Put(sleepRecords, id, updatedRecord)
                /\ Respond("PATCH /api/sleep-records/:id", 200, "", << updatedRecord >>)
    /\ UNCHANGED << users, children, sleepPredictions, userId, childId,
                    sleepRecordId, sleepPredictionId, clock, pending, policyVars >>

CacheMinutes == 30
PredictionRoute == "GET /api/children/:childId/sleep-prediction"

\* The cached prediction the route answers with, << >> when it computes anew
RecentPrediction_Inclusive(c) ==
    LET existingPrediction == getLatestSleepPredictionByChildId(c)
    IN  IF existingPrediction # << >>
           /\ clock - existingPrediction[1].createdAt <= CacheMinutes * Minute
        THEN existingPrediction ELSE << >>
RecentPrediction(c) ==
    LET existingPrediction == getLatestSleepPredictionByChildId(c)
    IN  IF existingPrediction # << >>
           /\ clock - existingPrediction[1].createdAt < CacheMinutes * Minute
        THEN existingPrediction ELSE << >>

\* GET /api/children/:childId/sleep-prediction, up to the await of the service:
\* the cached prediction, or 404, or the request to the service is sent and
\* the handler is suspended (pending holds the childId it resumes with)
GetSleepPrediction(c) ==
    /\ IF RecentPrediction(c) # << >>
       THEN /\ Respond(PredictionRoute, 200, "", RecentPrediction(c))
            /\ UNCHANGED pending
       ELSE IF c \notin DOMAIN children
       THEN /\ Respond(PredictionRoute, 404, "Child not found", << >>)
            /\ UNCHANGED pending
       ELSE /\ sleepPredictionId + Len(pending) <= MaxPredictions
            /\ pending' = Append(pending, c)
            /\ UNCHANGED response
    /\ UNCHANGED << storeVars, clock, policyVars >>

\* GET /api/children/:childId/sleep-prediction, from the await on, for the
\* i-th suspended handler: predictNextSleep returns and the prediction is
\* stored with createdAt = new Date(); an error thrown by predictNextSleep
\* goes to the route's catch (500)
ResumeSleepPrediction(i, outcome) ==
    /\ i \in 1 .. Len(pending)
    /\ pending' = [ k \in 1 .. (Len(pending) - 1) |->
                      IF k < i THEN pending[k] ELSE pending[k + 1] ]
    /\ LET c == pending[i]
           prediction == predictNextSleepReturn(outcome, clock)
       IN  /\ pc' = "done" /\ pNow' = clock /\ pOutcome' = outcome
           /\ pResult' = prediction
           /\ IF "error" \in DOMAIN prediction
              THEN /\ Respond(PredictionRoute, 500,
                              "Failed to generate sleep prediction", << >>)
                   /\ UNCHANGED << sleepPredictions, sleepPredictionId >>
              ELSE LET id == sleepPredictionId
                       sleepPrediction ==
                           [ childId |-> c,
                             predictedTime |-> DateParse(prediction.nextSleepTime),
                             predictedDuration |-> prediction.predictedDuration,
                             id |-> id,
                             createdAt |-> clock ]
                   IN  /\ sleepPredictionId' = sleepPredictionId + 1
                       /\ sleepPredictions' = createSleepPrediction(sleepPrediction)
                       /\ Respond(PredictionRoute, 200, "",
                                  << sleepPrediction >>)
    /\ UNCHANGED << users, children, sleepRecords, userId, childId, sleepRecordId,
                    clock, pAge, pHistory, pRequests >>

\* Time passes
ClockStart == 15 * Hour + 30 * Minute
ClockStep == 15 * Minute
Tick ==
    /\ clock < ClockStart + MaxClockSteps * ClockStep
    /\ clock' = clock + ClockStep
    /\ UNCHANGED << storeVars, pending, response, policyVars >>

\* ------------------------------------------- the prediction policy on its own

\* The responses of the service that are JSON objects: every subset of the
\* three fields, each present field falsy or not
ServiceTime == toISOString(20 * Hour)
Objects ==
    { Restrict(full, D) :
        full \in [ nextSleepTime : { ServiceTime, NotADate },
                   predictedDuration : { 0, 45 },
                   confidence : { 0, 9 } ],
        D \in SUBSET Fields }

Outcomes ==
    { [ kind |-> k, data |-> EmptyObject ] : k \in OutcomeKinds \ { "object" } }
    \cup { [ kind |-> "object", data |-> d ] : d \in Objects }

\* Arguments of predictNextSleep: an age in months and a sleep history
History ==
    << [ startTime |-> 0 - 3 * Hour, endTime |-> 0 - Hour, quality |-> "average" ],
       [ startTime |-> 0, endTime |-> Null, quality |-> QNull ] >>
Arguments == { << 2, << >> >>, << 30, History >> }

NoResult == [ nextSleepTime |-> EmptyString, predictedDuration |-> 0, confidence |-> 0 ]
NoOutcome == [ kind |-> "none", data |-> EmptyObject ]

\* predictNextSleep is called with some arguments at some instant of a day;
\* the server plays no part
PolicyInit ==
    /\ StoreInit
    /\ clock = ClockStart
    /\ pending = << >>
    /\ response = NoResponse
    /\ pc = "start"
    /\ \E a \in Arguments : pAge = a[1] /\ pHistory = a[2]
    /\ pNow \in 0 .. (Day - 1)
    /\ pOutcome = NoOutcome
    /\ pResult = NoResult
    /\ pRequests = << >>

\* predictNextSleep up to the await: the one request to the service
PredictCall ==
    /\ pc = "start"
    /\ pc' = "awaiting"
    /\ pRequests' = Append(pRequests, systemPrompt(pAge, pHistory, pNow))
    /\ UNCHANGED << pAge, pHistory, pNow, pOutcome, pResult, serverVars >>

\* predictNextSleep from the await on, were the fallback to give newborns
\* shorter naps
PredictReturn_ByAge ==
    /\ pc = "awaiting"
    /\ \E outcome \in Outcomes :
        /\ pOutcome' = outcome
        /\ pResult' =
             LET returned == predictNextSleepReturn(outcome, pNow)
             IN  IF outcome.kind \in ThrowingKinds /\ pAge < 3
                 THEN [ returned EXCEPT !.predictedDuration = 45 ]
                 ELSE returned
    /\ pc' = "done"
    /\ UNCHANGED << pAge, pHistory, pNow, pRequests, serverVars >>

\* predictNextSleep from the await on, were a failed request sent again
PredictReturn_Retry ==
    /\ pc = "awaiting"
    /\ \E outcome \in Outcomes :
        /\ pOutcome' = outcome
        /\ IF outcome.kind \in ThrowingKinds /\ Len(pRequests) < 2
           THEN pc' = "start" /\ pResult' = pResult
           ELSE pc' = "done" /\ pResult' = predictNextSleepReturn(outcome, pNow)
    /\ UNCHANGED << pAge, pHistory, pNow, pRequests, serverVars >>

\* predictNextSleep from the await on
PredictReturn ==
    /\ pc = "awaiting"
    /\ \E outcome \in Outcomes :
        /\ pOutcome' = outcome
        /\ pResult' = predictNextSleepReturn(outcome, pNow)
    /\ pc' = "done"
    /\ UNCHANGED << pAge, pHistory, pNow, pRequests, serverVars >>

PolicyNext == PredictCall \/ PredictReturn

\* predictNextSleep is called again, at the same instant, with arguments of
\* the caller's choice; pRequests keeps the requests of all the calls
MaxCalls == 2

PredictAgain ==
    /\ pc = "done"
    /\ Len(pRequests) < MaxCalls
    /\ pc' = "start"
    /\ \E a \in Arguments : pAge' = a[1] /\ pHistory' = a[2]
    /\ UNCHANGED << pNow, pOutcome, pResult, pRequests, serverVars >>

\* The service call of the invocation fails
PredictFails == PredictReturn /\ pOutcome'.kind \in ThrowingKinds

RepeatNext == PredictCall \/ PredictFails \/ PredictAgain

\* ------------------------------------------------------------------ inputs

ChildIds == 1 .. MaxChildren
RecordIds == 1 .. MaxRecords

BirthDate == toISOString(ClockStart - 100 * Day)
ValidChildBodies ==
    [ name : { "Ann", "Bo" }, birthDate : { BirthDate }, gender : { "girl" } ]
ChildBodies ==
    ValidChildBodies
    \cup { [ name |-> "Ann", birthDate |-> NotADate, gender |-> "girl" ],
           [ birthDate |-> BirthDate, gender |-> "girl" ],
           [ name |-> "Ann" ], [ name |-> "Bo" ], [ birthDate |-> NotADate ],
           Restrict([ name |-> "Ann" ], {}) }

\* Three instants before the server started
Early == toISOString(ClockStart - 3 * Hour)
Start == toISOString(ClockStart - 2 * Hour)
End == toISOString(ClockStart - Hour)
Qualities == { QNull, "slept well" }

\* Bodies of POST /api/sleep-records: every startTime/endTime order, two
\* bodies the object schema rejects, and one whose quality is a text of the
\* sender's own
RecordBodies ==
    [ childId : ChildIds, startTime : { Start },
      endTime : { JsonNull, Start, End }, isActive : BOOLEAN, quality : Qualities ]
    \cup { [ childId |-> 1, startTime |-> NotADate, endTime |-> JsonNull,
             isActive |-> TRUE, quality |-> QNull ],
           [ childId |-> 1, startTime |-> Start, isActive |-> TRUE ],
           [ childId |-> 1, startTime |-> Start, endTime |-> End,
             isActive |-> FALSE, quality |-> "great" ] }

\* Bodies of PATCH /api/sleep-records/:id: every subset of the three fields
UpdateBodies ==
    { Restrict(full, D) :
        full \in [ endTime : { JsonNull, Start, End, NotADate },
                   isActive : BOOLEAN, quality : Qualities ],
        D \in SUBSET UpdateFields }

\* The service's outcomes the server is run against
ServerOutcomes ==
    { [ kind |-> k, data |-> EmptyObject ] : k \in { "throw", "empty" } }
    \cup { [ kind |-> "object",
             data |-> [ nextSleepTime |-> ServiceTime, predictedDuration |-> 45,
                        confidence |-> 9 ] ] }

\* ------------------------------------------------------------ specifications

\* The server after construction, with no invocation of the policy observed
Init ==
    /\ StoreInit
    /\ clock = ClockStart
    /\ pending = << >>
    /\ response = NoResponse
    /\ pc = "idle" /\ pAge = 0 /\ pHistory = << >> /\ pNow = 0
    /\ pOutcome = NoOutcome /\ pResult = NoResult /\ pRequests = << >>

\* The routes that write children and sleep records
Next ==
    \/ \E body \in ChildBodies : PostChild(body)
    \/ \E id \in ChildIds, body \in ChildBodies : PutChild(id, body)
    \/ \E id \in ChildIds : DeleteChild(id)
    \/ \E body \in RecordBodies : PostSleepRecord(body)
    \/ \E id \in RecordIds, body \in UpdateBodies : PatchSleepRecord(id, body)

Spec == Init /\ [][Next]_vars

\* The prediction route for two children, while children are created, the
\* first child is deleted, one sleep session of the first child is started
\* and ended, and time passes
OneChild == [ name |-> "Ann", birthDate |-> BirthDate, gender |-> "girl" ]
StartSleep ==
    [ childId |-> 1, startTime |-> Start, endTime |-> JsonNull, isActive |-> TRUE,
      quality |-> QNull ]
EndSleep == [ endTime |-> End, isActive |-> FALSE ]

StartSession == sleepRecords = EmptyMap /\ PostSleepRecord(StartSleep)
EndSession == PatchSleepRecord(1, EndSleep)

PredictionNext ==
    \/ Tick
    \/ PostChild(OneChild)
    \/ DeleteChild(1)
    \/ StartSession
    \/ EndSession
    \/ \E c \in { 1, 2 } : GetSleepPrediction(c)
    \/ \E i \in 1 .. MaxPredictions, outcome \in ServerOutcomes :
          ResumeSleepPrediction(i, outcome)

PredictionSpec == Init /\ [][PredictionNext]_vars

\* The routes of the sleep sessions, with the routes that read the children:
\* sessions of two children are started, ended and rated, the rating sent
\* with fields the PATCH schema does not know
QueryRecordBodies == { StartSleep, [ StartSleep EXCEPT !.childId = 2 ] }
RateSleep ==
    [ quality |-> "average", id |-> 9, childId |-> 2, startTime |-> Early ]
QueryPatchBodies == { EndSleep, RateSleep }

QueryNext ==
    \/ PostChild(OneChild)
    \/ \E body \in QueryRecordBodies : PostSleepRecord(body)
    \/ \E id \in RecordIds, body \in QueryPatchBodies : PatchSleepRecord(id, body)
    \/ GetChildren
    \/ \E id \in ChildIds : GetChild(id)
    \/ \E c \in ChildIds : GetSleepRecords(c)
    \/ \E c \in ChildIds : GetActiveSleep(c)

QuerySpec == Init /\ [][QueryNext]_vars

\* The life of the entities: children are created and deleted, sleep sessions
\* are started and ended, the records of a child are listed and its prediction
\* is requested while the service is down
FailedCall == [ kind |-> "throw", data |-> EmptyObject ]

LifecycleNext ==
    \/ PostChild(OneChild)
    \/ \E id \in ChildIds : DeleteChild(id)
    \/ \E c \in { 1, 2 } : PostSleepRecord([ StartSleep EXCEPT !.childId = c ])
    \/ \E id \in RecordIds : PatchSleepRecord(id, EndSleep)
    \/ \E c \in { 1, 2 } : GetSleepRecords(c)
    \/ GetSleepPrediction(1)
    \/ \E i \in 1 .. MaxPredictions : ResumeSleepPrediction(i, FailedCall)

LifecycleSpec == Init /\ [][LifecycleNext]_vars

\* Every route over children and sleep records, each one that reads a body
\* with one body that passes its schema and the bodies that fail it
ChildRequests == { OneChild, [ name |-> "Ann" ] }
PutRequests == { [ name |-> "Bo" ], [ birthDate |-> NotADate ] }
NotAfterStart == [ StartSleep EXCEPT !.endTime = Start, !.isActive = FALSE ]
RecordRequests ==
    { StartSleep, NotAfterStart, [ childId |-> 1, startTime |-> Start, isActive |-> TRUE ] }
PatchRequests == { EndSleep, [ endTime |-> NotADate ] }

RequestNext ==
    \/ \E body \in ChildRequests : PostChild(body)
    \/ \E id \in ChildIds, body \in PutRequests : PutChild(id, body)
    \/ \E id \in ChildIds : DeleteChild(id)
    \/ \E id \in ChildIds : GetChild(id)
    \/ \E body \in RecordRequests : PostSleepRecord(body)
    \/ \E id \in RecordIds, body \in PatchRequests : PatchSleepRecord(id, body)
    \/ \E c \in ChildIds : GetActiveSleep(c)

RequestSpec == Init /\ [][RequestNext]_vars

\* The two list queries: sleep sessions of the first child that start at two
\* instants and one of the second child are posted in any order and listed,
\* and predictions of the two children are requested as time passes, the
\* service being down
ListBodies ==
    { [ StartSleep EXCEPT !.startTime = Early ], StartSleep,
      [ StartSleep EXCEPT !.childId = 2 ] }

ListNext ==
    \/ Tick
    \/ PostChild(OneChild)
    \/ \E body \in ListBodies : PostSleepRecord(body)
    \/ \E c \in { 1, 2 } : GetSleepRecords(c)
    \/ \E c \in { 1, 2 } : GetSleepPrediction(c)
    \/ \E i \in 1 .. MaxPredictions : ResumeSleepPrediction(i, FailedCall)

ListSpec == Init /\ [][ListNext]_vars

\* The prediction policy on its own, at every instant of a day
PolicySpec == PolicyInit /\ [][PolicyNext]_vars

\* The prediction policy called repeatedly at one instant while the service
\* is down
RepeatSpec == PolicyInit /\ [][RepeatNext]_vars

\* ---------------------------------------------- claims on the fallback rules

\* predictNextSleep has returned after the inner try threw
FellBack == pc = "done" /\ pOutcome.kind \in ThrowingKinds

\* The instant predictNextSleep returned as nextSleepTime
ReturnedTime == DateParse(pResult.nextSleepTime)

\* C5: whenever the service call fails (the request rejects, or the response
\* cannot be read: no message, a body that is not JSON, the JSON text null),
\* predictNextSleep returns the result of the time-of-day rules, and its
\* confidence is 0.7, not the 0.5 of the defaults.
C5_FailureGivesRuleTable ==
    FellBack =>
        /\ pResult = RuleBasedPrediction(pNow)
        /\ pResult.confidence = RuleConfidence
        /\ pResult.confidence # DefaultConfidence
        /\ pResult.predictedDuration \in { 60, 90, 600 }

C5_Witness ==
    /\ pc = "done" /\ pOutcome.kind = "unparseable"
    /\ pResult.confidence = RuleConfidence

\* C6: the nextSleepTime of the rule-based fallback is strictly later than the
\* instant at which the rules were evaluated.
C6_StrictlyFuture == FellBack => ReturnedTime > pNow

\* C7: for 9 <= hour < 13 the fallback returns 13:00 of the same day, 90
\* minutes, confidence 0.7.
C7_MiddayHours ==
    (FellBack /\ 9 <= getHours(pNow) /\ getHours(pNow) < 13) =>
        /\ ReturnedTime = (pNow - (pNow % Day)) + 13 * Hour
        /\ pResult.predictedDuration = 90
        /\ pResult.confidence = 7

C7_Witness ==
    /\ FellBack /\ getHours(pNow) = 10 /\ pNow % Hour = 1
    /\ ReturnedTime = 13 * Hour

\* C8: for hour >= 18 the fallback returns 19:30 of the same day if that
\* instant is not yet past, otherwise now + 30 minutes; 600 minutes and
\* confidence 0.7 either way.
C8_EveningHours ==
    (FellBack /\ getHours(pNow) >= 18) =>
        LET bedtime == (pNow - (pNow % Day)) + 19 * Hour + 30 * Minute
        IN  /\ ReturnedTime = IF bedtime >= pNow THEN bedtime ELSE pNow + 30 * Minute
            /\ pResult.predictedDuration = 600
            /\ pResult.confidence = 7

C8_Witness ==
    /\ FellBack /\ getHours(pNow) = 20
    /\ ReturnedTime = pNow + 30 * Minute
    /\ pResult.predictedDuration = 600

\* C9: for hour < 9 the fallback returns 09:30 of the same day and 90 minutes;
\* the retarget to 13:00 never applies, as 09:30 is never past before 09:00.
C9_MorningHours ==
    (FellBack /\ getHours(pNow) < 9) =>
        /\ ReturnedTime = (pNow - (pNow % Day)) + 9 * Hour + 30 * Minute
        /\ pResult.predictedDuration = 90

C9_Witness ==
    /\ FellBack /\ pNow = 9 * Hour - 1
    /\ ReturnedTime = 9 * Hour + 30 * Minute

\* C10: for 13 <= hour < 18 the fallback returns 16:00 of the same day, or
\* 19:30 of the same day once 16:00 is past; 60 minutes either way.
C10_AfternoonHours ==
    (FellBack /\ 13 <= getHours(pNow) /\ getHours(pNow) < 18) =>
        LET today == pNow - (pNow % Day)
        IN  /\ ReturnedTime = IF today + 16 * Hour < pNow
                              THEN today + 19 * Hour + 30 * Minute
                              ELSE today + 16 * Hour
            /\ pResult.predictedDuration = 60

C10_Witness ==
    /\ FellBack /\ pNow = 16 * Hour + 1
    /\ ReturnedTime = 19 * Hour + 30 * Minute
    /\ pResult.predictedDuration = 60

\* ------------------------------------------------------- claims on the store

ActiveRecords(c) ==
    { i \in DOMAIN sleepRecords :
        sleepRecords[i].childId = c /\ sleepRecords[i].isActive = TRUE }

\* C1: for every child id, at most one stored sleep record with that childId
\* has isActive = true.
C1_AtMostOneActive == \A c \in ChildIds : Cardinality(ActiveRecords(c)) <= 1

PredictionsOf(c) ==
    { i \in DOMAIN sleepPredictions : sleepPredictions[i].childId = c }
LatestOf(c) ==
    { i \in PredictionsOf(c) :
        \A j \in PredictionsOf(c) :
            sleepPredictions[i].createdAt >= sleepPredictions[j].createdAt }

\* C3: a request for the prediction of child c made while the latest stored
\* prediction of c is less than 30 minutes old is answered 200 with that
\* stored prediction; no request goes to the service and nothing is stored,
\* whatever sleep records the store holds.
C3_CachedPrediction ==
    [][ \A c \in ChildIds :
          ( /\ GetSleepPrediction(c)
            /\ \E i \in LatestOf(c) :
                  clock - sleepPredictions[i].createdAt < 30 * Minute )
          => /\ response'.route = PredictionRoute
             /\ response'.status = 200
             /\ \E i \in LatestOf(c) : response'.body = << sleepPredictions[i] >>
             /\ pending' = pending
             /\ sleepPredictions' = sleepPredictions
             /\ sleepPredictionId' = sleepPredictionId ]_vars

\* The answer is the prediction of child 1 stored first, although another was
\* stored after it (so it was answered from the store, not just computed),
\* at a time later than its createdAt, and a sleep session of child 1 has
\* been started and ended
C3_Witness ==
    /\ response.route = PredictionRoute /\ response.status = 200
    /\ response.body[1].id = 1 /\ response.body[1].childId = 1
    /\ response.body[1].createdAt < clock
    /\ sleepPredictionId = 3
    /\ \E i \in DOMAIN sleepRecords :
          sleepRecords[i].childId = 1 /\ sleepRecords[i].endTime # Null

\* C4: predictNextSleep returns a prediction with nextSleepTime,
\* predictedDuration and confidence for every outcome of the service call, so
\* the prediction route never answers 500.
C4_NeverFails ==
    /\ pc = "done" => DOMAIN pResult = Fields
    /\ response.route = PredictionRoute => response.status \in { 200, 404 }

C4_Witness ==
    /\ pc = "done" /\ pOutcome.kind = "throw"
    /\ response.route = PredictionRoute /\ response.status = 200
    /\ response.body[1].createdAt = pNow
    /\ response.body[1].predictedDuration = pResult.predictedDuration

\* ---------------------------------------------- claims on the primary path

\* The service answered, and its answer is malformed or carries nothing: a
\* body that is not JSON, an empty body, or a JSON object with none of the
\* three fields
Malformed ==
    \/ pOutcome.kind \in { "unparseable", "empty" }
    \/ pOutcome.kind = "object" /\ DOMAIN pOutcome.data = {}

\* C11: when the service answers with a malformed or incomplete response (not
\* JSON, empty, or an object without the fields), predictNextSleep returns the
\* defaults now + 2 hours, 90 minutes and confidence 0.5, and not the
\* rule-based result with confidence 0.7.
C11_MalformedGivesDefaults ==
    (pc = "done" /\ Malformed) =>
        /\ pResult = defaultPrediction(pNow)
        /\ pResult.confidence # RuleConfidence

\* C12: on the primary path each field is defaulted on its own: a field absent
\* from the parsed response takes its default (now + 2 hours, 90, 0.5), and a
\* field present in it is returned with the value the response gave it.
C12_FieldsDefaultedIndependently ==
    (pc = "done" /\ pOutcome.kind = "object") =>
        \A f \in Fields :
            pResult[f] = IF f \in DOMAIN pOutcome.data
                         THEN pOutcome.data[f]
                         ELSE defaultPrediction(pNow)[f]

\* ------------------------------------------------ claims on the life of entities

\* The stored sleep records of child c
RecordsOf(c) == { i \in DOMAIN sleepRecords : sleepRecords[i].childId = c }

\* C13: DELETE /api/children/:id on an existing child answers 204 whatever
\* sleep records and predictions carry its id, removes the child entry only and
\* leaves the sleep records and the predictions as they were; a later
\* GET /api/children/:childId/sleep-records for the deleted child answers 200
\* with exactly the records of that child.
C13_DeleteKeepsRecords ==
    [][ /\ \A id \in ChildIds :
              (DeleteChild(id) /\ id \in DOMAIN children) =>
                  /\ response'.status = 204
                  /\ children' = Delete(children, id)
                  /\ sleepRecords' = sleepRecords
                  /\ sleepPredictions' = sleepPredictions
                  /\ RecordsOf(id)' = RecordsOf(id)
        /\ \A c \in ChildIds :
              (GetSleepRecords(c) /\ c \notin DOMAIN children) =>
                  /\ response'.status = 200
                  /\ Len(response'.body) = Cardinality(RecordsOf(c))
                  /\ { response'.body[k] : k \in 1 .. Len(response'.body) }
                       = { sleepRecords[i] : i \in RecordsOf(c) } ]_vars

\* The only child ever created has been deleted, and the list of its sleep
\* records is answered with its two records, while a prediction of it is stored
C13_Witness ==
    /\ childId = 2 /\ children = EmptyMap
    /\ response.route = "GET /api/children/:childId/sleep-records"
    /\ response.status = 200
    /\ Len(response.body) = 2
    /\ \A k \in 1 .. 2 : response.body[k].childId = 1
    /\ \E i \in DOMAIN sleepPredictions : sleepPredictions[i].childId = 1

\* One step of the map and the id counter of one entity kind: the counter
\* stays or grows by one; a key is added only with the counter's value, which
\* is then consumed and returned in the response; every entity is keyed by its
\* own id, below the counter
CreatesInOrder(map, mapAfter, counter, counterAfter, answer) ==
    /\ counterAfter \in { counter, counter + 1 }
    /\ counterAfter = counter => DOMAIN mapAfter \subseteq DOMAIN map
    /\ counterAfter = counter + 1 =>
          /\ counter \notin DOMAIN map
          /\ DOMAIN mapAfter = DOMAIN map \cup { counter }
          /\ mapAfter[counter].id = counter
          /\ answer.body = << mapAfter[counter] >>
    /\ \A i \in DOMAIN mapAfter : mapAfter[i].id = i /\ i < counterAfter

\* C16: for each entity kind the n-th successful create returns id n, starting
\* at 1: the ids of a kind are pairwise distinct, each stored entity is keyed
\* by its own id, and no id is handed out again once deleteChild has removed
\* the child that held it.
C16_SequentialIds ==
    /\ childId = 1 /\ sleepRecordId = 1 /\ sleepPredictionId = 1
    /\ [][ /\ CreatesInOrder(children, children', childId, childId', response')
           /\ CreatesInOrder(sleepRecords, sleepRecords', sleepRecordId,
                             sleepRecordId', response')
           /\ CreatesInOrder(sleepPredictions, sleepPredictions',
                             sleepPredictionId, sleepPredictionId', response') ]_vars

\* The second child was created, with id 2, after the first had been deleted,
\* and two records and two predictions have been stored
C16_Witness ==
    /\ response.route = "POST /api/children" /\ response.status = 201
    /\ response.body[1].id = 2
    /\ DOMAIN children = { 2 } /\ childId = 3
    /\ DOMAIN sleepRecords = { 1, 2 } /\ sleepRecordId = 3
    /\ DOMAIN sleepPredictions = { 1, 2 } /\ sleepPredictionId = 3

\* ------------------------------------------------ claims on the error answers

\* The step answers with the given status and leaves the four maps and the
\* four id counters as they were
Refuses(status) == response'.status = status /\ storeVars' = storeVars

\* The routes that look an entity up, on an entity the store does not hold;
\* the two that read a body are given one that passes (sound) or any body
MissingEntityAnswers404(sound) ==
    /\ \A id \in ChildIds :
          (GetChild(id) /\ id \notin DOMAIN children) => Refuses(404)
    /\ \A id \in ChildIds, body \in PutRequests :
          ( /\ PutChild(id, body) /\ id \notin DOMAIN children
            /\ (sound => PartialChildOk(body)) ) => Refuses(404)
    /\ \A id \in ChildIds :
          (DeleteChild(id) /\ id \notin DOMAIN children) => Refuses(404)
    /\ \A id \in RecordIds, body \in PatchRequests :
          ( /\ PatchSleepRecord(id, body) /\ id \notin DOMAIN sleepRecords
            /\ (sound => UpdateSleepRecordOk(body)) ) => Refuses(404)
    /\ \A c \in ChildIds :
          (GetActiveSleep(c) /\ ActiveRecords(c) = {}) => Refuses(404)

\* C14 as stated: GET, PUT and DELETE /api/children/:id on an id with no
\* stored child, PATCH /api/sleep-records/:id on an id with no stored record
\* and GET active-sleep for a child without an active record each answer 404
\* and leave the four maps and the id counters unchanged, whatever the body.
C14_MissingAnswers404 == [][ MissingEntityAnswers404(FALSE) ]_vars

\* C14, amended: the same, for PUT and PATCH only when the body passes the
\* route's schema; the body is validated before the entity is looked up, so a
\* body that fails is answered 400 also on a missing id (store unchanged).
C14_MissingAnswers404_ValidBody ==
    [][ /\ MissingEntityAnswers404(TRUE)
        /\ \A id \in ChildIds, body \in PutRequests :
              ( /\ PutChild(id, body) /\ id \notin DOMAIN children
                /\ ~ PartialChildOk(body) ) => Refuses(400)
        /\ \A id \in RecordIds, body \in PatchRequests :
              ( /\ PatchSleepRecord(id, body) /\ id \notin DOMAIN sleepRecords
                /\ ~ UpdateSleepRecordOk(body) ) => Refuses(400) ]_vars

\* PUT on the id of a deleted child is answered 404, while another child and
\* a sleep record are stored
C14_Witness ==
    /\ response.route = "PUT /api/children/:id" /\ response.status = 404
    /\ response.message = "Child not found"
    /\ DOMAIN children = { 2 } /\ childId = 3
    /\ sleepRecords # EmptyMap

\* C15: POST /api/children, PUT /api/children/:id, POST /api/sleep-records and
\* PATCH /api/sleep-records/:id with a body that fails the route's schema
\* (for POST /api/sleep-records also one whose endTime is not after its
\* startTime) answer 400 with a message and leave the store unchanged: no
\* entity is created or modified and no id is consumed.
C15_InvalidBodyAnswers400 ==
    [][ /\ \A body \in ChildRequests :
              (PostChild(body) /\ ~ InsertChildOk(body)) =>
                  Refuses(400) /\ response'.message # ""
        /\ \A id \in ChildIds, body \in PutRequests :
              (PutChild(id, body) /\ ~ PartialChildOk(body)) =>
                  Refuses(400) /\ response'.message # ""
        /\ \A body \in RecordRequests :
              ( /\ PostSleepRecord(body)
                /\ \/ ~ InsertSleepRecordObjectOk(body)
                   \/ /\ body.endTime # JsonNull
                      /\ DateParse(body.endTime) <= DateParse(body.startTime) ) =>
                  Refuses(400) /\ response'.message # ""
        /\ \A id \in RecordIds, body \in PatchRequests :
              (PatchSleepRecord(id, body) /\ ~ UpdateSleepRecordOk(body)) =>
                  Refuses(400) /\ response'.message # "" ]_vars

\* A sleep record whose endTime equals its startTime has just been refused,
\* with the message of the refinement, while a child and a record are stored
C15_Witness ==
    /\ response.route = "POST /api/sleep-records" /\ response.status = 400
    /\ response.message = RefineMessage
    /\ children # EmptyMap /\ sleepRecords # EmptyMap /\ sleepRecordId = 2

\* ------------------------------------------------ claims on the predictions

\* C17: a stored prediction is immutable: no step changes its childId,
\* predictedTime, predictedDuration or createdAt or removes it, and a later
\* prediction is added as a new entry, under an id larger than those stored.
C17_PredictionsImmutable ==
    [][ /\ \A i \in DOMAIN sleepPredictions :
              /\ i \in DOMAIN sleepPredictions'
              /\ sleepPredictions'[i] = sleepPredictions[i]
        /\ \A j \in (DOMAIN sleepPredictions') \ (DOMAIN sleepPredictions) :
              \A i \in DOMAIN sleepPredictions : j > i ]_vars

\* A second prediction of child 1 has been stored half an hour after the
\* first, which is still there, and the child has been deleted since
C17_Witness ==
    /\ DOMAIN sleepPredictions = { 1, 2 }
    /\ sleepPredictions[1].childId = 1 /\ sleepPredictions[2].childId = 1
    /\ sleepPredictions[2].createdAt >= sleepPredictions[1].createdAt + 30 * Minute
    /\ 1 \notin DOMAIN children

\* --------------------------------------------- claims on the sleep sessions

\* C18: every stored sleep record with isActive = true has endTime null.
C18_ActiveHasNoEnd ==
    \A i \in DOMAIN sleepRecords :
        sleepRecords[i].isActive = TRUE => sleepRecords[i].endTime = Null

\* The session of a stored record has ended
Ended(record) == record.isActive = FALSE /\ record.endTime # Null

\* C19: a sleep record is ended at most once and never deleted: once it has
\* isActive = false and an endTime, no step changes its endTime or sets
\* isActive back to true, and no step removes a record from the store.
C19_EndedOnce ==
    [][ \A i \in DOMAIN sleepRecords :
          /\ i \in DOMAIN sleepRecords'
          /\ Ended(sleepRecords[i]) =>
                /\ sleepRecords'[i].endTime = sleepRecords[i].endTime
                /\ sleepRecords'[i].isActive = FALSE ]_vars

\* sleepQualitySchema: the four ratings of the client's form
QualityEnum == { "slept well", "average", "poor sleep", "very poor" }

\* C20: every stored sleep record's quality is null or one of the four
\* ratings, and a record with a rating has isActive = false.
C20_QualityClosedEnum ==
    \A i \in DOMAIN sleepRecords :
        /\ sleepRecords[i].quality \in QualityEnum \cup { QNull }
        /\ sleepRecords[i].quality # QNull => sleepRecords[i].isActive = FALSE

\* ------------------------------------------- claims on the prediction route

\* No stored prediction of child c is less than 30 minutes old
NoneFresh(c) ==
    \A i \in PredictionsOf(c) : clock - sleepPredictions[i].createdAt >= 30 * Minute

\* The sequence q without its i-th element
Without(q, i) ==
    [ k \in 1 .. (Len(q) - 1) |-> IF k < i THEN q[k] ELSE q[k + 1] ]

\* C21: a prediction request for a stored child with no prediction less than
\* 30 minutes old (none, or the newest exactly 30 minutes old or older) sends
\* one request to the policy and stores nothing yet; when the policy returns,
\* exactly one prediction is stored, under the next id, with the requested
\* childId and createdAt the time of storing, and it is the response.
C21_StaleComputesOnce ==
    [][ /\ \A c \in ChildIds :
              (GetSleepPrediction(c) /\ c \in DOMAIN children /\ NoneFresh(c)) =>
                  /\ pending' = Append(pending, c)
                  /\ storeVars' = storeVars
        /\ Len(pending') < Len(pending) =>
              \E i \in 1 .. Len(pending) :
                  /\ pending' = Without(pending, i)
                  /\ sleepPredictionId' = sleepPredictionId + 1
                  /\ DOMAIN sleepPredictions' =
                        DOMAIN sleepPredictions \cup { sleepPredictionId }
                  /\ \A j \in DOMAIN sleepPredictions :
                        sleepPredictions'[j] = sleepPredictions[j]
                  /\ sleepPredictions'[sleepPredictionId].id = sleepPredictionId
                  /\ sleepPredictions'[sleepPredictionId].childId = pending[i]
                  /\ sleepPredictions'[sleepPredictionId].createdAt = clock
                  /\ response'.status = 200
                  /\ response'.body = << sleepPredictions'[sleepPredictionId] >> ]_vars

\* The second prediction of child 1 has just been stored and answered, the
\* first being exactly 30 minutes old
C21_Witness ==
    /\ response.route = PredictionRoute /\ response.status = 200
    /\ response.body[1].id = 2 /\ response.body[1].childId = 1
    /\ response.body[1].createdAt = clock
    /\ 1 \in DOMAIN sleepPredictions
    /\ sleepPredictions[1].childId = 1
    /\ sleepPredictions[1].createdAt = clock - 30 * Minute

\* C22: any two stored predictions of one child have createdAt values at
\* least 30 minutes apart, also when two requests for the child overlap at the
\* suspended service call.
C22_PredictionsSpacedApart ==
    \A i, j \in DOMAIN sleepPredictions :
        (i < j /\ sleepPredictions[i].childId = sleepPredictions[j].childId) =>
            sleepPredictions[j].createdAt - sleepPredictions[i].createdAt >= 30 * Minute

\* C23: a prediction request for an id with no stored child is answered 404
\* and stores nothing, also when the child was deleted after a prediction of
\* it was stored less than 30 minutes earlier.
C23_MissingChildAnswers404 ==
    [][ \A c \in ChildIds :
          (GetSleepPrediction(c) /\ c \notin DOMAIN children) =>
              /\ response'.route = PredictionRoute
              /\ response'.status = 404
              /\ storeVars' = storeVars
              /\ pending' = pending ]_vars

\* ------------------------------------------- claims on the policy's inputs

C25_OneRequest ==
    /\ Len(pRequests) <= 1
    /\ pc \in { "awaiting", "done" } => Len(pRequests) = 1
    /\ FellBack => Len(pRequests) = 1 /\ pResult.confidence = RuleConfidence

C25_Witness ==
    /\ FellBack /\ pOutcome.kind = "throw"
    /\ Len(pRequests) = 1
    /\ pRequests[1].childAge = 30 /\ Len(pRequests[1].history) = 1

\* C28: on the primary path a field present in the parsed response is
\* returned unchanged whatever its value, predictedDuration = 0 and
\* confidence = 0 included.
C28_PresentFieldsUnchanged ==
    (pc = "done" /\ pOutcome.kind = "object") =>
        \A f \in DOMAIN pOutcome.data : pResult[f] = pOutcome.data[f]

\* ------------------------------------------------- claims on the ownership

\* C29: every sleep record and every prediction is stored with the childId of
\* a child that is in the store at the moment of storing: POST
\* /api/sleep-records stores no record for an id that is not a child's, and a
\* prediction request suspended at the service call stores no prediction for
\* a child deleted in the meantime.
C29_StoredForExistingChild ==
    [][ /\ \A i \in (DOMAIN sleepRecords') \ (DOMAIN sleepRecords) :
              sleepRecords'[i].childId \in DOMAIN children
        /\ \A i \in (DOMAIN sleepPredictions') \ (DOMAIN sleepPredictions) :
              sleepPredictions'[i].childId \in DOMAIN children ]_vars

\* --------------------------------------------------- claims on the queries

\* The list is non-increasing in startTime
NewestFirst(list) ==
    \A k \in 1 .. (Len(list) - 1) : list[k].startTime >= list[k + 1].startTime

\* C30: getSleepRecordsByChildId(c) returns all and only the stored records
\* with childId = c, each once, in non-increasing order of startTime;
\* getLatestSleepPredictionByChildId(c) returns a prediction of c whose
\* createdAt is the maximum among c's predictions, and undefined iff c has
\* none; the routes that run the queries answer with their results and leave
\* the store as it was.
C30_QueriesNewestFirst ==
    /\ [] \A c \in ChildIds :
            LET list == getSleepRecordsByChildId(c)
                latest == getLatestSleepPredictionByChildId(c)
            IN  /\ Len(list) = Cardinality(RecordsOf(c))
                /\ { list[k] : k \in 1 .. Len(list) }
                     = { sleepRecords[i] : i \in RecordsOf(c) }
                /\ NewestFirst(list)
                /\ latest = << >> <=> PredictionsOf(c) = {}
                /\ latest # << >> =>
                      latest[1] \in { sleepPredictions[i] : i \in LatestOf(c) }
    /\ [][ \A c \in ChildIds :
             /\ ( /\ response'.route = "GET /api/children/:childId/sleep-records"
                  /\ GetSleepRecords(c) ) =>
                   /\ response'.body = getSleepRecordsByChildId(c)
                   /\ storeVars' = storeVars
             /\ ( /\ clock' = clock
                  /\ GetSleepPrediction(c) ) => storeVars' = storeVars ]_vars

\* The two records of child 1 are listed, the one posted last and started
\* last first, while the later of its two predictions is the latest
C30_Witness ==
    /\ response.route = "GET /api/children/:childId/sleep-records"
    /\ Len(response.body) = 2
    /\ response.body[1].childId = 1 /\ response.body[2].childId = 1
    /\ response.body[1].id = 2 /\ response.body[1].startTime > response.body[2].startTime
    /\ DOMAIN sleepPredictions = { 1, 2 }
    /\ sleepPredictions[1].childId = 1 /\ sleepPredictions[2].childId = 1
    /\ sleepPredictions[2].createdAt > sleepPredictions[1].createdAt
    /\ getLatestSleepPredictionByChildId(1) = << sleepPredictions[2] >>

\* C26: a successful PATCH /api/sleep-records/:id is a partial merge: of
\* endTime, isActive and quality it changes those the body supplies, to the
\* values supplied, and leaves the others, the record's id, childId and
\* startTime, every other sleep record, the children and the predictions as
\* they were.
C26_PatchMergesSupplied ==
    [][ \A id \in RecordIds, body \in QueryPatchBodies :
          ( /\ response'.route = "PATCH /api/sleep-records/:id"
            /\ response'.status = 200
            /\ PatchSleepRecord(id, body) ) =>
              /\ id \in DOMAIN sleepRecords
              /\ DOMAIN sleepRecords' = DOMAIN sleepRecords
              /\ DOMAIN sleepRecords'[id] = DOMAIN sleepRecords[id]
              /\ \A f \in { "id", "childId", "startTime" } :
                    sleepRecords'[id][f] = sleepRecords[id][f]
              /\ \A f \in UpdateFields \ DOMAIN body :
                    sleepRecords'[id][f] = sleepRecords[id][f]
              /\ \A f \in UpdateFields \cap DOMAIN body :
                    sleepRecords'[id][f] =
                        IF f # "endTime" THEN body[f]
                        ELSE IF body[f] = JsonNull THEN Null
                        ELSE DateParse(body[f])
              /\ \A j \in DOMAIN sleepRecords \ { id } :
                    sleepRecords'[j] = sleepRecords[j]
              /\ response'.body = << sleepRecords'[id] >>
              /\ children' = children
              /\ sleepPredictions' = sleepPredictions
              /\ << userId, childId, sleepRecordId, sleepPredictionId >>'
                    = << userId, childId, sleepRecordId, sleepPredictionId >> ]_vars

\* The second record has been ended and then rated by a body that also
\* carried an id, a childId and a startTime: it keeps its own, and its
\* endTime; the first record and the child are as they were
C26_Witness ==
    /\ response.route = "PATCH /api/sleep-records/:id" /\ response.status = 200
    /\ response.body[1].id = 2
    /\ response.body[1].quality = "average"
    /\ response.body[1].endTime = DateParse(End) /\ response.body[1].isActive = FALSE
    /\ response.body[1].childId = 1 /\ response.body[1].startTime = DateParse(Start)
    /\ sleepRecords[2] = response.body[1]
    /\ 1 \in DOMAIN sleepRecords /\ sleepRecords[1].isActive = TRUE
    /\ children # EmptyMap

\* C27: getActiveSleepRecordByChildId(c) returns undefined exactly when no
\* stored record has childId = c and isActive = true, and otherwise the active
\* record of c with the smallest id, also when several records of c are
\* active; the active-sleep route answers 200 with it.
C27_FirstActiveRecord ==
    /\ [] \A c \in ChildIds :
            LET found == getActiveSleepRecordByChildId(c)
            IN  /\ found = << >> <=> ActiveRecords(c) = {}
                /\ found # << >> =>
                      /\ found[1].id \in ActiveRecords(c)
                      /\ \A i \in ActiveRecords(c) : found[1].id <= i
                      /\ found[1] = sleepRecords[found[1].id]
    /\ [][ \A c \in ChildIds :
             ( /\ response'.route = "GET /api/children/:childId/active-sleep"
               /\ GetActiveSleep(c)
               /\ ActiveRecords(c) # {} ) =>
                 /\ response'.status = 200
                 /\ response'.body = getActiveSleepRecordByChildId(c)
                 /\ storeVars' = storeVars ]_vars

\* Two sessions of child 1 are active and the route answers with the first
C27_Witness ==
    /\ response.route = "GET /api/children/:childId/active-sleep"
    /\ response.status = 200
    /\ response.body[1].id = 1 /\ response.body[1].childId = 1
    /\ ActiveRecords(1) = { 1, 2 }

====
